---- MODULE Spec2Model ----
(***************************************************************************)
(* POTA park activation logbook (POTA.py): the in-memory catalog, the      *)
(* persisted catalog and config files, the table model's list, and the    *)
(* handlers import_csv_action, prompt_activation, filter_parks and the    *)
(* construction of PotaLogbookApp.                                         *)
(*                                                                         *)
(* A Python str is a sequence of one-character strings; Python's None is  *)
(* the one-element sequence None, which no str equals.  A handler is one  *)
(* action: Qt runs every slot to completion on the GUI thread.  Writes to *)
(* the two JSON files are taken to succeed; a read of the CSV file may    *)
(* fail at any row.  prompt_activation is taken at the method's interface, *)
(* for any reference, whether or not a button is bound to it.  restart is *)
(* the program closed, or killed by an exception no slot caught, and      *)
(* started again on the files it left.                                     *)
(***************************************************************************)
EXTENDS Integers, Sequences, FiniteSets, TLC

VARIABLES
    all_parks,       \* PotaLogbookApp.all_parks: list of park dicts
    parks_file,      \* parks_data.json: [exists, data]
    config,          \* PotaLogbookApp.config: dict
    config_file,     \* config.json: [exists, data]
    code,            \* province_combo.currentData()
    _data,           \* ParkTableModel._data
    index_widgets,   \* per row of _data: the reference its button activates, or None
    message,         \* what the last handler run showed: a QMessageBox, an uncaught exception
    imported_csv,    \* history: rows of the CSV of the last successful import
    ever_activated,  \* history: references whose activation was confirmed
    reference,       \* argument of the last get_park_number_int call
    sort_key         \* its outcome

vars == << all_parks, parks_file, config, config_file, code, _data,
           index_widgets, message, imported_csv, ever_activated,
           reference, sort_key >>

-----------------------------------------------------------------------------
(* Bounds *)

\* Longest CSV file, in data rows.
MaxRows == 2

\* Longest reference string handed to get_park_number_int.
MaxLen == 3

-----------------------------------------------------------------------------
(* Python values *)

None == << "None" >>

DigitChars == << "0", "1", "2", "3", "4", "5", "6", "7", "8", "9" >>

DigitSet == { DigitChars[i] : i \in DOMAIN DigitChars }

Whitespace == { " ", "\t", "\n", "\r" }

PROVINCE_MAP ==
    { <<"C", "N", "-", "A", "H">>, <<"C", "N", "-", "B", "J">>, <<"C", "N", "-", "C", "Q">>,
      <<"C", "N", "-", "F", "J">>, <<"C", "N", "-", "G", "D">>, <<"C", "N", "-", "G", "S">>,
      <<"C", "N", "-", "G", "X">>, <<"C", "N", "-", "G", "Z">>, <<"C", "N", "-", "H", "A">>,
      <<"C", "N", "-", "H", "B">>, <<"C", "N", "-", "H", "E">>, <<"C", "N", "-", "H", "I">>,
      <<"C", "N", "-", "H", "K">>, <<"C", "N", "-", "H", "L">>, <<"C", "N", "-", "H", "N">>,
      <<"C", "N", "-", "J", "L">>, <<"C", "N", "-", "J", "S">>, <<"C", "N", "-", "J", "X">>,
      <<"C", "N", "-", "L", "N">>, <<"C", "N", "-", "M", "O">>, <<"C", "N", "-", "N", "M">>,
      <<"C", "N", "-", "N", "X">>, <<"C", "N", "-", "Q", "H">>, <<"C", "N", "-", "S", "C">>,
      <<"C", "N", "-", "S", "D">>, <<"C", "N", "-", "S", "H">>, <<"C", "N", "-", "S", "N">>,
      <<"C", "N", "-", "S", "X">>, <<"C", "N", "-", "T", "J">>, <<"C", "N", "-", "T", "W">>,
      <<"C", "N", "-", "X", "J">>, <<"C", "N", "-", "X", "Z">>, <<"C", "N", "-", "Y", "N">>,
      <<"C", "N", "-", "Z", "J">> }

\* `not x` for x a str or None.
falsy(x) == x = None \/ x = << >>

\* The last index k >= j - 1 with s[j..k] all in set: the end of a greedy run.
RECURSIVE run_end(_, _, _)
run_end(s, j, set) ==
    IF j <= Len(s) /\ s[j] \in set THEN run_end(s, j + 1, set) ELSE j - 1

\* int(s) for a str s: its decimal value, or ValueError when s is not all digits.
RECURSIVE decimal(_)
decimal(s) ==
    IF s = << >> THEN 0
    ELSE 10 * decimal(SubSeq(s, 1, Len(s) - 1))
         + (CHOOSE n \in 0..9 : DigitChars[n + 1] = s[Len(s)])

int(s) ==
    IF s # << >> /\ \A i \in DOMAIN s : s[i] \in DigitSet
    THEN [exception |-> "none", value |-> decimal(s)]
    ELSE [exception |-> "ValueError", value |-> 0]

\* re.search(r'-(\\d+)', s).group(1); None when there is no match.  The raw
\* pattern is the characters - ( \ \ d + ): a '-', a literal backslash, then
\* one or more letters d.
re_search_group1(s) ==
    LET starts == { i \in DOMAIN s : /\ s[i] = "-"
                                     /\ i + 2 <= Len(s)
                                     /\ s[i + 1] = "\\"
                                     /\ s[i + 2] = "d" }
    IN  IF starts = {} THEN None
        ELSE LET i == CHOOSE k \in starts : \A m \in starts : k <= m
             IN  SubSeq(s, i + 1, run_end(s, i + 2, {"d"}))

get_park_number_int(ref) ==
    LET group1 == re_search_group1(ref)
    IN  IF group1 # None THEN int(group1)
        ELSE [exception |-> "none", value |-> 0]

-----------------------------------------------------------------------------
(* str.split(','), str.strip() and the province list of a locationDesc *)

RECURSIVE split(_, _)
split(s, sep) ==
    IF s = << >> THEN << << >> >>
    ELSE LET rest == split(Tail(s), sep)
         IN  IF Head(s) = sep THEN << << >> >> \o rest
             ELSE << << Head(s) >> \o Head(rest) >> \o Tail(rest)

RECURSIVE strip(_)
strip(s) ==
    IF s = << >> THEN s
    ELSE IF s[1] \in Whitespace THEN strip(Tail(s))
    ELSE IF s[Len(s)] \in Whitespace THEN strip(SubSeq(s, 1, Len(s) - 1))
    ELSE s

\* [c.strip() for c in desc.split(',') if c.strip() in PROVINCE_MAP]
RECURSIVE stripped_known(_)
stripped_known(tokens) ==
    IF tokens = << >> THEN << >>
    ELSE LET c == strip(Head(tokens))
         IN  (IF c \in PROVINCE_MAP THEN << c >> ELSE << >>)
             \o stripped_known(Tail(tokens))

provinces_of(desc) == stripped_known(split(desc, ","))

-----------------------------------------------------------------------------
(* json.dump / json.load of the two files.  A file's data keeps each scalar *)
(* as its JSON text, so that the encoding and the decoding are both steps.  *)

json_null == << "n", "u", "l", "l" >>

json_true == << "t", "r", "u", "e" >>

json_false == << "f", "a", "l", "s", "e" >>

\* The body of a JSON string: '"' and '\' are escaped (ensure_ascii=False).
RECURSIVE json_escape(_)
json_escape(s) ==
    IF s = << >> THEN << >>
    ELSE (IF Head(s) \in { "\"", "\\" } THEN << "\\", Head(s) >> ELSE << Head(s) >>)
         \o json_escape(Tail(s))

RECURSIVE json_unescape(_)
json_unescape(s) ==
    IF s = << >> THEN << >>
    ELSE IF Head(s) = "\\" /\ Len(s) >= 2
         THEN << s[2] >> \o json_unescape(SubSeq(s, 3, Len(s)))
         ELSE << Head(s) >> \o json_unescape(Tail(s))

\* A str or None as JSON text, and back.
json_dump_str(x) ==
    IF x = None THEN json_null ELSE << "\"" >> \o json_escape(x) \o << "\"" >>

json_load_str(t) ==
    IF t = json_null THEN None ELSE json_unescape(SubSeq(t, 2, Len(t) - 1))

json_dump_bool(b) == IF b THEN json_true ELSE json_false

json_load_bool(t) == t = json_true

json_dump_park(p) ==
    [ reference       |-> json_dump_str(p.reference),
      name            |-> json_dump_str(p.name),
      provinces       |-> [ j \in DOMAIN p.provinces |-> json_dump_str(p.provinces[j]) ],
      activated       |-> json_dump_bool(p.activated),
      activation_time |-> json_dump_str(p.activation_time) ]

json_load_park(o) ==
    [ reference       |-> json_load_str(o.reference),
      name            |-> json_load_str(o.name),
      provinces       |-> [ j \in DOMAIN o.provinces |-> json_load_str(o.provinces[j]) ],
      activated       |-> json_load_bool(o.activated),
      activation_time |-> json_load_str(o.activation_time) ]

NoFile == [ exists |-> FALSE, data |-> << >> ]

\* save_parks_to_json: the file after json.dump(self.all_parks, f, ...).
save_parks_to_json(parks) ==
    [ exists |-> TRUE, data |-> [ i \in DOMAIN parks |-> json_dump_park(parks[i]) ] ]

\* load_parks_from_json: self.all_parks after the call, given its value before.
\* A file this program wrote always holds a list.
load_parks_from_json(parks, file) ==
    IF file.exists
    THEN [ i \in DOMAIN file.data |-> json_load_park(file.data[i]) ]
    ELSE parks

\* save_config: the file after json.dump(self.config, f, ...).
save_config(cfg) ==
    [ exists |-> TRUE, data |-> [ k \in DOMAIN cfg |-> json_dump_str(cfg[k]) ] ]

\* load_config: {} when the file is absent.
load_config(file) ==
    IF file.exists
    THEN [ k \in DOMAIN file.data |-> json_load_str(file.data[k]) ]
    ELSE << >>

\* dict.get(key) with default None.
dict_get(d, key) == IF key \in DOMAIN d THEN d[key] ELSE None

\* d[key] = value
dict_set(d, key, value) ==
    [ k \in (DOMAIN d) \cup { key } |-> IF k = key THEN value ELSE d[k] ]

-----------------------------------------------------------------------------
(* QDate.toString("yyyy-MM-dd"); a QDate is <<year, month, day>> *)

RECURSIVE zero_padded(_, _)
zero_padded(n, width) ==
    IF width = 0 THEN << >>
    ELSE zero_padded(n \div 10, width - 1) \o << DigitChars[(n % 10) + 1] >>

toString(date) ==
    zero_padded(date[1], 4) \o << "-" >> \o zero_padded(date[2], 2)
        \o << "-" >> \o zero_padded(date[3], 2)

-----------------------------------------------------------------------------
(* Inputs *)

CN_0012 == << "C", "N", "-", "0", "0", "1", "2" >>

CN_7 == << "C", "N", "-", "7" >>

CN_9999 == << "C", "N", "-", "9", "9", "9", "9" >>

BADREF == << "B", "A", "D", "R", "E", "F" >>

CN_AH == << "C", "N", "-", "A", "H" >>

CN_BJ == << "C", "N", "-", "B", "J" >>

\* Rows as csv.DictReader yields them; a column the file lacks reads as None.
\* reference,name,locationDesc = CN-0012,"P""","x, CN-AH"
RowP == [ reference    |-> CN_0012,
          name         |-> << "P", "\"" >>,
          locationDesc |-> << "x", ",", " ", "C", "N", "-", "A", "H" >> ]

\* CN-7,R,"CN-BJ ,CN-AH"
RowR == [ reference    |-> CN_7,
          name         |-> << "R" >>,
          locationDesc |-> << "C", "N", "-", "B", "J", " ", ",",
                              "C", "N", "-", "A", "H" >> ]

\* ,S  with no locationDesc field: empty reference, missing field
RowS == [ reference    |-> << >>,
          name         |-> << "S" >>,
          locationDesc |-> None ]

CsvRows == { RowP, RowR, RowS }

\* A CSV file, as a read sees it: the rows it delivers, and whether the read
\* then ends normally (readable) or raises; what lies behind the point of
\* failure is never read.  No rows and not readable covers a failing open().
CsvContents == UNION { [ 1..k -> CsvRows ] : k \in 0..MaxRows }

CsvFiles == { [ rows |-> r, readable |-> ok ] : r \in CsvContents, ok \in BOOLEAN }

\* The file dialog closed without a file: filename is ''.
NoCsvFile == [ rows |-> << >>, readable |-> FALSE ]

\* References prompt_activation is called with.
ParkRefs == { CN_0012, CN_7, CN_9999 }

\* Dates the dialog's QDateTimeEdit holds when it is accepted.
Dates == { << 2024, 5, 1 >>, << 2023, 12, 31 >> }

\* Entries of province_combo the user selects: "all" and two provinces.
ComboChoices == { None, CN_AH, CN_BJ }

-----------------------------------------------------------------------------
(* load_parks_from_csv *)

\* existing = {p['reference']: p for p in self.all_parks}: the last record wins.
existing(parks) ==
    [ r \in { parks[i].reference : i \in DOMAIN parks } |->
        parks[CHOOSE i \in DOMAIN parks :
                /\ parks[i].reference = r
                /\ \A j \in DOMAIN parks : parks[j].reference = r => j <= i] ]

\* A faulty variant of exist_get: nothing is carried over from the old catalog.
exist_get_defaults(ex, ref) == [ activated |-> FALSE, activation_time |-> None ]

\* existing.get(ref, {}) followed by .get('activated', False) and
\* .get('activation_time', None).
exist_get(ex, ref) ==
    IF ref \in DOMAIN ex
    THEN [ activated |-> ex[ref].activated, activation_time |-> ex[ref].activation_time ]
    ELSE [ activated |-> FALSE, activation_time |-> None ]

\* The body of `for row in reader`, over the rows delivered.
RECURSIVE new_list_of(_, _)
new_list_of(rows, ex) ==
    IF rows = << >> THEN << >>
    ELSE LET row == Head(rows)
             rest == new_list_of(Tail(rows), ex)
         IN  IF falsy(row.reference) \/ falsy(row.name) \/ falsy(row.locationDesc)
             THEN rest
             ELSE << [ reference       |-> row.reference,
                       name            |-> row.name,
                       provinces       |-> provinces_of(row.locationDesc),
                       activated       |-> exist_get(ex, row.reference).activated,
                       activation_time |-> exist_get(ex, row.reference).activation_time ] >>
                  \o rest

\* A faulty variant of load_parks_from_csv: the records of the old catalog that the CSV
\* does not name are kept behind the new ones.
load_parks_from_csv_keeping_absent(parks, file) ==
    LET new_list == new_list_of(file.rows, existing(parks))
        absent == SelectSeq(parks, LAMBDA p :
                      \A k \in DOMAIN new_list : new_list[k].reference # p.reference)
    IN  IF file.readable
        THEN [ raised |-> FALSE, all_parks |-> new_list \o absent,
               processed_count |-> Len(new_list) ]
        ELSE [ raised |-> TRUE, all_parks |-> parks, processed_count |-> 0 ]

\* A faulty variant of load_parks_from_csv: the new list is built in self.all_parks
\* itself, so a read that raises leaves the rows read so far in it.
load_parks_from_csv_in_place(parks, file) ==
    LET new_list == new_list_of(file.rows, existing(parks))
    IN  IF file.readable
        THEN [ raised |-> FALSE, all_parks |-> new_list, processed_count |-> Len(new_list) ]
        ELSE [ raised |-> TRUE, all_parks |-> new_list, processed_count |-> 0 ]

\* self.all_parks after the call, whether it raised, and the count it returns
\* (one per record appended).
load_parks_from_csv(parks, file) ==
    LET new_list == new_list_of(file.rows, existing(parks))
    IN  IF file.readable
        THEN [ raised |-> FALSE, all_parks |-> new_list, processed_count |-> Len(new_list) ]
        ELSE [ raised |-> TRUE, all_parks |-> parks, processed_count |-> 0 ]

-----------------------------------------------------------------------------
(* filter_parks and update_activation_buttons *)

\* [p for p in parks if c in p['provinces']]
RECURSIVE parks_in(_, _)
parks_in(parks, c) ==
    IF parks = << >> THEN << >>
    ELSE (IF \E j \in DOMAIN Head(parks).provinces : Head(parks).provinces[j] = c
          THEN << Head(parks) >> ELSE << >>)
         \o parks_in(Tail(parks), c)

\* A faulty variant of filtered: a park is matched on its first province alone.
filtered_by_first_province(parks, c) ==
    IF c = None THEN parks
    ELSE SelectSeq(parks, LAMBDA p : p.provinces # << >> /\ p.provinces[1] = c)

filtered(parks, c) == IF c = None THEN parks ELSE parks_in(parks, c)

\* A button bound to the park's reference on every row not yet activated.
buttons(data) ==
    [ i \in DOMAIN data |-> IF ~data[i].activated THEN data[i].reference ELSE None ]

\* filter_parks, run with self.all_parks = parks and the combo box at c.
filter_parks(parks, c) ==
    /\ config' = dict_set(config, "last_province_code", c)
    /\ config_file' = save_config(config')
    /\ _data' = filtered(parks, c)
    /\ index_widgets' = buttons(_data')

-----------------------------------------------------------------------------
(* Messages *)

NoMessage ==
    [ box |-> "none", park_ref |-> None, park_count |-> 0, activation_time |-> None ]

\* QMessageBox.information: the count of records imported (line 262)
ImportedMessage(n) ==
    [ box |-> "information", park_ref |-> None, park_count |-> n, activation_time |-> None ]

\* QMessageBox.warning: park_ref was not found (line 306)
NotFoundMessage(ref) ==
    [ box |-> "warning", park_ref |-> ref, park_count |-> 0, activation_time |-> None ]

\* QMessageBox.information: park_ref is activated at activation_time (line 314)
ActivatedMessage(ref, time) ==
    [ box |-> "information", park_ref |-> ref, park_count |-> 0, activation_time |-> time ]

\* An exception that leaves the slot uncaught.
UncaughtMessage ==
    [ box |-> "excepthook", park_ref |-> None, park_count |-> 0, activation_time |-> None ]

-----------------------------------------------------------------------------
(* Handlers *)

Init ==
    /\ all_parks = << >>
    /\ parks_file = NoFile
    /\ config = dict_set(<< >>, "last_province_code", None)
    /\ config_file = save_config(config)
    /\ code = None
    /\ _data = << >>
    /\ index_widgets = << >>
    /\ message = NoMessage
    /\ imported_csv = [ done |-> FALSE, rows |-> << >> ]
    /\ ever_activated = {}
    /\ reference = << >>
    /\ sort_key = [ called |-> FALSE, exception |-> "none", value |-> 0 ]

\* import_csv_action, the file dialog closed with `file` chosen, or cancelled.
import_csv_action(chosen, file) ==
    IF ~chosen
    THEN /\ message' = NoMessage
         /\ UNCHANGED << all_parks, parks_file, config, config_file, code, _data,
                         index_widgets, imported_csv, ever_activated,
                         reference, sort_key >>
    ELSE \E loaded \in { load_parks_from_csv(all_parks, file) } :
             /\ IF loaded.raised
                THEN /\ message' = UncaughtMessage
                     /\ UNCHANGED << parks_file, config, config_file, _data,
                                     index_widgets, imported_csv >>
                ELSE /\ message' = ImportedMessage(loaded.processed_count)
                     /\ imported_csv' = [ done |-> TRUE, rows |-> file.rows ]
                     /\ parks_file' = save_parks_to_json(loaded.all_parks)
                     /\ filter_parks(loaded.all_parks, code)
             /\ all_parks' = loaded.all_parks
             /\ UNCHANGED << code, ever_activated, reference, sort_key >>

\* A faulty variant of find_park: the first record stands in for one that is not found.
find_park_or_first(parks, park_ref) ==
    LET found == { i \in DOMAIN parks : parks[i].reference = park_ref }
    IN  IF found = {} THEN (IF parks = << >> THEN 0 ELSE 1)
        ELSE CHOOSE i \in found : \A j \in found : i <= j

\* next((p for p in parks if p['reference'] == park_ref), None), as the index
\* of the record found, 0 for None.
find_park(parks, park_ref) ==
    LET found == { i \in DOMAIN parks : parks[i].reference = park_ref }
    IN  IF found = {} THEN 0
        ELSE CHOOSE i \in found : \A j \in found : i <= j

\* A faulty variant of activate: the flag is set and the date is not.
activate_flag_only(parks, i, activation_time) ==
    [ parks EXCEPT ![i].activated = TRUE ]

\* park['activated'] = True; park['activation_time'] = dlg.activation_time
activate(parks, i, activation_time) ==
    [ parks EXCEPT ![i].activated = TRUE, ![i].activation_time = activation_time ]

\* A faulty variant of prompt_activation: the activation is not saved.
prompt_activation_without_save(park_ref, accepted, date) ==
    LET park == find_park(all_parks, park_ref)
    IN  IF park = 0
        THEN /\ message' = NotFoundMessage(park_ref)
             /\ UNCHANGED << all_parks, parks_file, config, config_file, code, _data,
                             index_widgets, imported_csv, ever_activated,
                             reference, sort_key >>
        ELSE IF ~accepted
        THEN /\ message' = NoMessage
             /\ UNCHANGED << all_parks, parks_file, config, config_file, code, _data,
                             index_widgets, imported_csv, ever_activated,
                             reference, sort_key >>
        ELSE /\ all_parks' = activate(all_parks, park, toString(date))
             /\ filter_parks(all_parks', code)
             /\ message' = ActivatedMessage(park_ref, toString(date))
             /\ ever_activated' = ever_activated \cup { park_ref }
             /\ UNCHANGED << parks_file, code, imported_csv, reference, sort_key >>

\* prompt_activation(park_ref), the dialog accepted with `date` or rejected.
prompt_activation(park_ref, accepted, date) ==
    LET park == find_park(all_parks, park_ref)
    IN  IF park = 0
        THEN /\ message' = NotFoundMessage(park_ref)
             /\ UNCHANGED << all_parks, parks_file, config, config_file, code, _data,
                             index_widgets, imported_csv, ever_activated,
                             reference, sort_key >>
        ELSE IF ~accepted
        THEN /\ message' = NoMessage
             /\ UNCHANGED << all_parks, parks_file, config, config_file, code, _data,
                             index_widgets, imported_csv, ever_activated,
                             reference, sort_key >>
        ELSE /\ all_parks' = activate(all_parks, park, toString(date))
             /\ parks_file' = save_parks_to_json(all_parks')
             /\ filter_parks(all_parks', code)
             /\ message' = ActivatedMessage(park_ref, toString(date))
             /\ ever_activated' = ever_activated \cup { park_ref }
             /\ UNCHANGED << code, imported_csv, reference, sort_key >>

\* province_combo.currentIndexChanged, the user selecting another entry.
select_province(c) ==
    /\ c # code
    /\ code' = c
    /\ filter_parks(all_parks, c)
    /\ message' = NoMessage
    /\ UNCHANGED << all_parks, parks_file, imported_csv, ever_activated,
                    reference, sort_key >>

\* restore_last_province: the combo's data after it, starting at "all".
restore_last_province(cfg) ==
    LET last_code == dict_get(cfg, "last_province_code")
    IN  IF ~falsy(last_code) /\ last_code \in PROVINCE_MAP THEN last_code ELSE None

\* The program is closed (or has died of an uncaught exception) and started
\* again: PotaLogbookApp.__init__.
restart ==
    /\ all_parks' = load_parks_from_json(<< >>, parks_file)
    /\ code' = restore_last_province(load_config(config_file))
    /\ config' = dict_set(load_config(config_file), "last_province_code", code')
    /\ config_file' = save_config(config')
    /\ _data' = filtered(all_parks', code')
    /\ index_widgets' = buttons(_data')
    /\ message' = NoMessage
    /\ UNCHANGED << parks_file, imported_csv, ever_activated, reference, sort_key >>

Next ==
    \/ \E file \in CsvFiles : import_csv_action(TRUE, file)
    \/ import_csv_action(FALSE, NoCsvFile)
    \/ \E park_ref \in ParkRefs, accepted \in BOOLEAN, date \in Dates :
          prompt_activation(park_ref, accepted, date)
    \/ \E c \in ComboChoices : select_province(c)
    \/ restart

Spec == Init /\ [][Next]_vars

-----------------------------------------------------------------------------
(* The sort key on its own: ParkTableModel.data(index, UserRole) *)

Alphabet == { "-", "\\", "d", "1", "2", "A" }

KeyInputs ==
    (UNION { [ 1..n -> Alphabet ] : n \in 0..MaxLen }) \cup { CN_0012, BADREF }

InitKey ==
    /\ all_parks = << >>
    /\ parks_file = NoFile
    /\ config = dict_set(<< >>, "last_province_code", None)
    /\ config_file = save_config(config)
    /\ code = None
    /\ _data = << >>
    /\ index_widgets = << >>
    /\ message = NoMessage
    /\ imported_csv = [ done |-> FALSE, rows |-> << >> ]
    /\ ever_activated = {}
    /\ reference \in KeyInputs
    /\ sort_key = [ called |-> FALSE, exception |-> "none", value |-> 0 ]

\* return get_park_number_int(park['reference'])
data_UserRole ==
    /\ ~sort_key.called
    /\ sort_key' = [ called    |-> TRUE,
                     exception |-> get_park_number_int(reference).exception,
                     value     |-> get_park_number_int(reference).value ]
    /\ UNCHANGED << all_parks, parks_file, config, config_file, code, _data,
                    index_widgets, message, imported_csv, ever_activated, reference >>

NextKey == data_UserRole

SpecKey == InitKey /\ [][NextKey]_vars

-----------------------------------------------------------------------------
(* The same program, fed only CSV files whose rows have distinct references *)

DistinctCsvFiles ==
    { file \in CsvFiles :
        \A i, j \in DOMAIN file.rows :
            file.rows[i].reference = file.rows[j].reference => i = j }

NextDistinct ==
    \/ \E file \in DistinctCsvFiles : import_csv_action(TRUE, file)
    \/ import_csv_action(FALSE, NoCsvFile)
    \/ \E park_ref \in ParkRefs, accepted \in BOOLEAN, date \in Dates :
          prompt_activation(park_ref, accepted, date)
    \/ \E c \in ComboChoices : select_province(c)
    \/ restart

SpecDistinct == Init /\ [][NextDistinct]_vars

-----------------------------------------------------------------------------
(* Properties *)

\* The index of the last record of parks with reference r, 0 when there is none.
LastWith(parks, r) ==
    LET found == { i \in DOMAIN parks : parks[i].reference = r }
    IN  IF found = {} THEN 0
        ELSE CHOOSE i \in found : \A j \in found : j <= i

\* The message is that of a successful import.
ImportReported == message.box = "information" /\ message.activation_time = None

\* The message is that of a confirmed activation.
ActivationReported == message.box = "information" /\ message.activation_time # None

\* C1: every record of the catalog is activated exactly when its
\* activation_time is not None.
C1_ActivatedIffTime ==
    \A i \in DOMAIN all_parks :
        all_parks[i].activated <=> all_parks[i].activation_time # None

\* C1 witness: an import has merged a catalog holding an activated record
\* (with its date) and an unactivated one.
C1_Witness ==
    /\ ImportReported
    /\ \E i, j \in DOMAIN all_parks :
          /\ all_parks[i].activated /\ all_parks[i].activation_time # None
          /\ ~all_parks[j].activated /\ all_parks[j].activation_time = None

\* C2 (as claimed): no two records of the catalog have the same reference.
C2_ReferencesUnique ==
    \A i, j \in DOMAIN all_parks :
        all_parks[i].reference = all_parks[j].reference => i = j

\* C3 (as claimed): an import of the CSV that the previous successful import
\* read leaves the catalog as it was just before, whatever activations were
\* recorded in between.
C3_ReimportKeepsCatalog ==
    [][ \A file \in CsvFiles :
          ( /\ file.readable
            /\ imported_csv.done
            /\ imported_csv.rows = file.rows
            /\ import_csv_action(TRUE, file) )
          => all_parks' = all_parks ]_vars

\* C4: once a CSV has been imported, every record of the catalog has the
\* reference of one of that CSV's rows.
C4_NoOrphans ==
    imported_csv.done =>
        \A i \in DOMAIN all_parks :
            \E k \in DOMAIN imported_csv.rows :
                imported_csv.rows[k].reference = all_parks[i].reference

\* C4 witness: an import has just dropped a park that had been activated.
C4_Witness ==
    /\ ImportReported
    /\ \E r \in ever_activated : LastWith(all_parks, r) = 0

\* C5: prompt_activation with a reference that no record has shows the
\* "not found" warning and changes neither the catalog nor the catalog file.
C5_UnknownReferenceChangesNothing ==
    [][ \A park_ref \in ParkRefs, accepted \in BOOLEAN, date \in Dates :
          ( /\ \A i \in DOMAIN all_parks : all_parks[i].reference # park_ref
            /\ prompt_activation(park_ref, accepted, date) )
          => /\ message' = NotFoundMessage(park_ref)
             /\ all_parks' = all_parks
             /\ parks_file' = parks_file ]_vars

\* C5 witness: the warning was shown while the catalog held records and the
\* catalog file existed.
C5_Witness ==
    /\ message.box = "warning"
    /\ all_parks # << >>
    /\ parks_file.exists

\* C6: a step in which import_csv_action ends in the exception of a failed
\* read of the CSV leaves the catalog and the catalog file as they were.
C6_FailedImportChangesNothing ==
    [][ ( /\ message' = UncaughtMessage
          /\ \E file \in CsvFiles : ~file.readable /\ import_csv_action(TRUE, file) )
        => /\ all_parks' = all_parks
           /\ parks_file' = parks_file ]_vars

\* C6 witness: a read has failed over a catalog with an activated record.
C6_Witness ==
    /\ message = UncaughtMessage
    /\ parks_file.exists
    /\ \E i \in DOMAIN all_parks : all_parks[i].activated

\* C7 (as claimed): for every reference whose activation was ever confirmed,
\* the record with that reference, whenever the catalog has one, is activated.
C7_NeverUnactivated ==
    \A r \in ever_activated :
        find_park(all_parks, r) # 0 => all_parks[find_park(all_parks, r)].activated

\* C7 (amended): in every step, if the last record with reference r is
\* activated before the step, every record with reference r in the catalog
\* after the step is activated.
C7_ActivationSurvivesEachStep ==
    [][ \A r \in ParkRefs :
          (LastWith(all_parks, r) # 0 /\ all_parks[LastWith(all_parks, r)].activated)
          => \A i \in DOMAIN all_parks' :
                all_parks'[i].reference = r => all_parks'[i].activated ]_vars

\* C7 witness: an import of two records has kept every activation confirmed
\* so far.
C7_Witness ==
    /\ ImportReported
    /\ message.park_count >= 2
    /\ ever_activated # {}
    /\ \A r \in ever_activated :
          /\ LastWith(all_parks, r) # 0
          /\ all_parks[LastWith(all_parks, r)].activated

\* The value of the first run of decimal digits of ref that follows a '-',
\* 0 when there is none.
DigitsAfterDash(ref) ==
    LET starts == { i \in DOMAIN ref : /\ ref[i] = "-"
                                       /\ i + 1 <= Len(ref)
                                       /\ ref[i + 1] \in DigitSet }
    IN  IF starts = {} THEN 0
        ELSE LET i == CHOOSE k \in starts : \A m \in starts : k <= m
             IN  decimal(SubSeq(ref, i + 1, run_end(ref, i + 1, DigitSet)))

\* C8 (as claimed): the sort key of a reference is the value of the first run
\* of decimal digits that follows a '-' in it, 0 when there is none.
C8_SortKeyIsDigitsAfterDash ==
    sort_key.called =>
        /\ sort_key.exception = "none"
        /\ sort_key.value = DigitsAfterDash(reference)

\* Park p lists province c.
HasProvince(p, c) == \E j \in DOMAIN p.provinces : p.provinces[j] = c

\* C9: the table model's list is the full catalog under "all provinces",
\* and under a province code the records of the catalog whose provinces
\* contain it, in catalog order.
C9_TableShowsFilteredCatalog ==
    _data = IF code = None
            THEN all_parks
            ELSE SelectSeq(all_parks, LAMBDA p : HasProvince(p, code))

\* C9 witness: a province is selected and the table shows some of the
\* catalog's records and not others.
C9_Witness ==
    /\ code # None
    /\ Len(_data) >= 1
    /\ Len(_data) < Len(all_parks)

\* C10: what load_parks_from_json reads from the catalog file is the
\* in-memory catalog.
C10_FileHoldsCatalog == load_parks_from_json(<< >>, parks_file) = all_parks

\* C10 witness: after a confirmed activation the file holds two records,
\* one of them activated.
C10_Witness ==
    /\ ActivationReported
    /\ parks_file.exists
    /\ Len(parks_file.data) = 2
    /\ \E i \in DOMAIN parks_file.data : parks_file.data[i].activated = json_true

====
